---- MODULE Spec2Model ----
(***************************************************************************)
(* Model of best/admin.py: the role-scoped admin of the tutoring tracker.  *)
(* The database tables are the state; every admin hook (get_queryset,      *)
(* formfield_for_foreignkey, get_actions, get_list_filter) is an action    *)
(* that leaves its return value in `result`; export_report_action is a    *)
(* sequence of steps (header, one step per CSV row, update + message).     *)
(***************************************************************************)
EXTENDS Integers, Sequences, FiniteSets

\* ------------------------------------------------------------------ bounds
NumUsers == 3
NumSchools == 2
NumGroups == 2
NumStudents == 2
NumReports == 2
NumRows == 2

\* ------------------------------------------------------------- primitives
\* A nullable column: None is the empty tuple, a stored value v is <<v>>.
None == <<>>
Some(v) == <<v>>

Digits == <<"0", "1", "2", "3", "4", "5", "6", "7", "8", "9">>

RECURSIVE Str(_)
\* Python str() of a non-negative integer.
Str(n) == IF n < 10 THEN Digits[n + 1] ELSE Str(n \div 10) \o Digits[(n % 10) + 1]

\* csv.writer's rendering of a nullable integer cell: None is written as
\* the empty string, anything else as str(value).
CsvCell(opt) == IF opt = None THEN "" ELSE Str(opt[1])

\* Python truthiness of a nullable integer: None and 0 are falsy.
Truthy(opt) == opt # None /\ opt[1] # 0

\* Python truthiness of a string: only the empty string is falsy.
TruthyStr(s) == s # ""

\* ------------------------------------------------------------------ tables
Users == 1 .. NumUsers
\* The last user has no Instructor record (a plain staff account).
Instructors == 1 .. (NumUsers - 1)
Schools == 1 .. NumSchools
Sections == 1 .. NumSchools
Courses == 1 .. NumSchools
Groups == 1 .. NumGroups
Students == 1 .. NumStudents
GroupStudents == 1 .. NumStudents
Plans == 1 .. NumReports
LearningTargets == {1}
Reports == 1 .. NumReports
ReportStudents == 1 .. NumRows

EXPORT_PERM == "best.export_report"

\* request.user as the hooks see it.
Requests == [user : Users, is_superuser : BOOLEAN, perms : SUBSET {EXPORT_PERM}]

VARIABLES
    auth_user,       \* User rows: first_name, last_name
    instructor,      \* Instructor rows: user, school
    student,         \* Student rows: osis_number
    course,          \* Course rows: code
    section,         \* Section rows: course, school, year_code, semester_code
    learningtarget,  \* LearningTarget rows: code
    group,           \* Group rows: section, instructor
    groupstudent,    \* GroupStudent rows (pk -> group, student)
    plan,            \* Plan rows
    report,          \* Report rows: group, plan, date, week
    exported,        \* Report.exported, per report
    reportstudent,   \* ReportStudent rows (pk -> report, student, scores)
    pc,              \* "idle" or the position inside export_report_action
    queryset,        \* the queryset handed to export_report_action
    pending,         \* (report, report_student) pairs still to be written
    response,        \* CSV rows written so far to the HttpResponse
    messages,        \* messages queued by message_user
    result           \* return value of the last finished hook

tables == <<auth_user, instructor, student, course, section, learningtarget,
            group, groupstudent, plan, report, reportstudent>>
locals == <<pc, queryset, pending, response>>
vars == <<tables, exported, locals, messages, result>>

\* --------------------------------------------------------- table contents
Wrap(k, n) == ((k - 1) % n) + 1

\* The rows that stay the same in every database the model starts from.
AuthUserRows ==
    [u \in Users |-> [first_name |-> "First" \o Str(u), last_name |-> "Last" \o Str(u)]]
\* Instructor is one-to-one with a user account and belongs to a School.
InstructorRows ==
    [i \in Instructors |-> [user |-> NumUsers - i, school |-> Wrap(i, NumSchools)]]
StudentRows == [s \in Students |-> [osis_number |-> "OSIS" \o Str(s)]]
CourseRows == [c \in Courses |-> [code |-> "CRS" \o Str(c)]]
SectionRows ==
    [s \in Sections |-> [course |-> s, school |-> s,
                         year_code |-> "FY" \o Str(s), semester_code |-> "Q" \o Str(s)]]
LearningTargetRows == [l \in LearningTargets |-> [code |-> "LT" \o Str(l)]]
GroupRows == [g \in Groups |-> [section |-> Wrap(g, NumSchools),
                                instructor |-> Wrap(g, NumUsers - 1)]]
GroupStudentRows == [k \in GroupStudents |-> [group |-> Wrap(k, NumGroups), student |-> k]]
PlanRows ==
    [p \in Plans |-> [instructor |-> Wrap(p, NumUsers - 1), course |-> Wrap(p, NumSchools),
                      learning_target |-> IF p % 2 = 1 THEN Some(1) ELSE None,
                      alt_learning_target |-> "ALT" \o Str(p),
                      dosage |-> p, exit_ticket_denominator |-> 5,
                      homework_denominator |-> 10]]
ReportRows == [r \in Reports |-> [group |-> Wrap(r, NumGroups), plan |-> r,
                                  date |-> "2016-01-0" \o Str(r), week |-> r]]
ReportStudentRows ==
    [k \in ReportStudents |-> [report |-> Wrap(k, NumReports), student |-> Wrap(k, NumStudents),
                               attendance |-> "P", exit_ticket |-> Some(k),
                               homework_effort |-> "G", homework_accuracy |-> Some(k),
                               quiz |-> Some(1)]]

\* Labels of the choice fields (get_FOO_display).
AttendanceDisplay(code) == IF code = "P" THEN "Present" ELSE "Absent"
HomeworkEffortDisplay(code) == IF code = "G" THEN "Good" ELSE "Poor"

NoRequest == [user |-> 0, is_superuser |-> FALSE, perms |-> {}]
NoResult == [hook |-> "", request |-> NoRequest, arg |-> "", status |-> "", value |-> {}]

InitFixed ==
    /\ auth_user = AuthUserRows
    /\ instructor = InstructorRows
    /\ student = StudentRows
    /\ course = CourseRows
    /\ section = SectionRows
    /\ learningtarget = LearningTargetRows
    /\ exported = [r \in Reports |-> FALSE]
    /\ pc = "idle"
    /\ queryset = <<>>
    /\ pending = <<>>
    /\ response = <<>>
    /\ messages = <<>>
    /\ result = NoResult

\* Databases of the changelist hooks: every assignment of groups to
\* sections and instructors; each report sits in a group.
InitChangelist ==
    /\ InitFixed
    /\ group \in [Groups -> [section : Sections, instructor : Instructors]]
    /\ groupstudent = GroupStudentRows
    /\ plan = PlanRows
    /\ report = ReportRows
    /\ reportstudent = ReportStudentRows

\* Databases of the form hooks: every ownership of the groups and every
\* membership of students in them.
InitFormfield ==
    /\ InitFixed
    /\ \E own \in [Groups -> Instructors] :
           group = [g \in Groups |-> [GroupRows[g] EXCEPT !.instructor = own[g]]]
    /\ \E mem \in [GroupStudents -> Students] :
           groupstudent = [k \in GroupStudents |->
                               [GroupStudentRows[k] EXCEPT !.student = mem[k]]]
    /\ plan = PlanRows
    /\ report = ReportRows
    /\ reportstudent = ReportStudentRows

\* The stored quiz values told apart: no quiz, a zero score, a positive one.
QuizValues == {None, Some(0), Some(1)}

\* Databases of the export: every distribution of the per-student rows
\* over the reports and every quiz value; the plans of odd key have a
\* structured learning target, the others only the free-text alternate.
InitExport ==
    /\ InitFixed
    /\ group = GroupRows
    /\ groupstudent = GroupStudentRows
    /\ plan = PlanRows
    /\ report = ReportRows
    /\ \E rep \in [ReportStudents -> Reports] :
       \E qz \in [ReportStudents -> QuizValues] :
           reportstudent = [k \in ReportStudents |->
                                [ReportStudentRows[k] EXCEPT !.report = rep[k],
                                                             !.quiz = qz[k]]]

\* ------------------------------------------------------ framework helpers
\* user.has_perm: an (active) superuser holds every permission, any other
\* user the permissions granted to the account.
has_perm(user, perm) == user.is_superuser \/ perm \in user.perms

\* The Instructor records whose user is u (user.instructor_set).
instructor_set(u) == {i \in Instructors : instructor[i].user = u}

Min(S) == CHOOSE x \in S : \A y \in S : x <= y

\* The default queryset of a foreign-key form field: every row of the
\* related model.
DefaultChoices(db_field) ==
    CASE db_field = "instructor" -> Instructors
      [] db_field = "section" -> Sections
      [] db_field = "group" -> Groups
      [] db_field = "plan" -> Plans
      [] db_field = "report" -> Reports
      [] db_field = "student" -> Students

Ok(v) == [status |-> "ok", value |-> v]
Raised == [status |-> "error", value |-> {}]

\* What a hook leaves behind when it returns (or raises): its name, the
\* request, its other argument (db_field, the inherited actions or the
\* queryset) and the outcome.
Returned(hook, req, arg, out) ==
    [hook |-> hook, request |-> req, arg |-> arg,
     status |-> out.status, value |-> out.value]

\* -------------------------------------------------------------- GroupAdmin
GroupAdmin_get_queryset(req) ==
    IF req.is_superuser
    THEN Ok(Groups)
    ELSE Ok({g \in Groups : instructor[group[g].instructor].user = req.user})

GroupAdmin_formfield_for_foreignkey(db_field, req) ==
    IF ~req.is_superuser /\ db_field = "instructor"
    THEN Ok({i \in Instructors : instructor[i].user = req.user})
    ELSE Ok(DefaultChoices(db_field))

\* --------------------------------------------------------------- PlanAdmin
PlanAdmin_get_queryset(req) ==
    IF req.is_superuser
    THEN Ok(Plans)
    ELSE Ok({p \in Plans : instructor[plan[p].instructor].user = req.user})

\* ----------------------------------------------------- ReportStudentInline
\* student_ids collects the primary keys of the GroupStudent rows of the
\* groups of the user's first Instructor record; the Student queryset is
\* then filtered by pk__in=student_ids.
ReportStudentInline_formfield_for_foreignkey(db_field, req) ==
    IF db_field = "student" /\ ~req.is_superuser
    THEN IF instructor_set(req.user) = {}
         THEN Raised
         ELSE LET first == Min(instructor_set(req.user))
                  instructor_groups == {g \in Groups : group[g].instructor = first}
                  student_ids == {k \in GroupStudents :
                                      groupstudent[k].group \in instructor_groups}
              IN  Ok({s \in Students : s \in student_ids})
    ELSE Ok(DefaultChoices(db_field))

\* ------------------------------------------------------------- ReportAdmin
BaseActions == {{"export_report_action"}, {"delete_selected", "export_report_action"}}

\* Variant: the action is gated on is_superuser instead of the permission.
ReportAdmin_get_actions_superuser_gate(base, req) ==
    IF ~req.is_superuser
    THEN Ok(IF "export_report_action" \in base
            THEN base \ {"export_report_action"}
            ELSE base)
    ELSE Ok(base)

ReportAdmin_get_actions(base, req) ==
    IF ~has_perm(req, EXPORT_PERM)
    THEN Ok(IF "export_report_action" \in base
            THEN base \ {"export_report_action"}
            ELSE base)
    ELSE Ok(base)

exporter_list_filter == <<"exported", "ReportCourseFilter", "date">>

ReportAdmin_get_list_filter(req) ==
    IF has_perm(req, EXPORT_PERM) THEN Ok(exporter_list_filter) ELSE Ok(<<>>)

\* Variant: the restriction is lifted for whoever may export.
ReportAdmin_formfield_for_foreignkey_exporter_exempt(db_field, req) ==
    IF ~has_perm(req, EXPORT_PERM) /\ db_field = "group"
    THEN Ok({g \in Groups : instructor[group[g].instructor].user = req.user})
    ELSE Ok(DefaultChoices(db_field))

ReportAdmin_formfield_for_foreignkey(db_field, req) ==
    IF ~req.is_superuser /\ db_field = "group"
    THEN Ok({g \in Groups : instructor[group[g].instructor].user = req.user})
    ELSE Ok(DefaultChoices(db_field))

\* Variant: the last filter is forgotten.
ReportAdmin_get_queryset_unfiltered(req) ==
    IF req.is_superuser
    THEN Ok(Reports)
    ELSE IF has_perm(req, EXPORT_PERM)
         THEN IF instructor_set(req.user) = {}
              THEN Raised
              ELSE LET mine == CHOOSE i \in instructor_set(req.user) : TRUE
                   IN  Ok({r \in Reports :
                              section[group[report[r].group].section].school
                                  = instructor[mine].school})
         ELSE Ok(Reports)

\* Variant: the exporter's filter follows group__instructor__school.
ReportAdmin_get_queryset_instructor_school(req) ==
    IF req.is_superuser
    THEN Ok(Reports)
    ELSE IF has_perm(req, EXPORT_PERM)
         THEN IF instructor_set(req.user) = {}
              THEN Raised
              ELSE LET mine == CHOOSE i \in instructor_set(req.user) : TRUE
                   IN  Ok({r \in Reports :
                              instructor[group[report[r].group].instructor].school
                                  = instructor[mine].school})
         ELSE Ok({r \in Reports :
                     instructor[group[report[r].group].instructor].user = req.user})

ReportAdmin_get_queryset(req) ==
    IF req.is_superuser
    THEN Ok(Reports)
    ELSE IF has_perm(req, EXPORT_PERM)
         THEN IF instructor_set(req.user) = {}
              THEN Raised
              ELSE LET mine == CHOOSE i \in instructor_set(req.user) : TRUE
                   IN  Ok({r \in Reports :
                              section[group[report[r].group].section].school
                                  = instructor[mine].school})
         ELSE Ok({r \in Reports :
                     instructor[group[report[r].group].instructor].user = req.user})

\* The column titles of the CSV, as written by the first writerow.
Header ==
    <<"OSIS #", "Course", "Fiscal/Schol Year", "Date", "Quarter", "Week", "Attendance",
      "Dosage", "Exit Ticket", "Exit Ticket (Denominator)", "Learning Target Notes",
      "HW Effort", "HW Accuracy", "HW (Denominator)", "Weekly Quiz", "Weekly Quiz",
      "Instructor">>

\* 'Yes' if report_student.quiz and str(report_student.quiz) else 'No'
QuizFlag(quiz) == IF Truthy(quiz) /\ TruthyStr(Str(quiz[1])) THEN "Yes" ELSE "No"

\* Variant: the column always takes the free-text alternate.
LearningTargetCell_alternate_only(pl) == pl.alt_learning_target

\* plan.learning_target.code if plan.learning_target else plan.alt_learning_target
LearningTargetCell(pl) ==
    IF pl.learning_target # None
    THEN learningtarget[pl.learning_target[1]].code
    ELSE pl.alt_learning_target

\* The CSV row of per-student row k of report r.
Row(r, k) ==
    LET report_student == reportstudent[k]
        rep == report[r]
        grp == group[rep.group]
        sec == section[grp.section]
        pl == plan[rep.plan]
        usr == auth_user[instructor[grp.instructor].user]
    IN  << student[report_student.student].osis_number,
           course[sec.course].code,
           sec.year_code,
           rep.date,
           sec.semester_code,
           Str(rep.week),
           AttendanceDisplay(report_student.attendance),
           Str(pl.dosage),
           CsvCell(report_student.exit_ticket),
           Str(pl.exit_ticket_denominator),
           LearningTargetCell(pl),
           HomeworkEffortDisplay(report_student.homework_effort),
           CsvCell(report_student.homework_accuracy),
           Str(pl.homework_denominator),
           QuizFlag(report_student.quiz),
           CsvCell(report_student.quiz),
           usr.first_name \o " " \o usr.last_name >>

RECURSIVE Sorted(_)
\* The elements of a set of primary keys in ascending order.
Sorted(S) == IF S = {} THEN <<>> ELSE <<Min(S)>> \o Sorted(S \ {Min(S)})

\* Variant: the per-student rows are not narrowed to the report.
reportstudent_set_every_row(r) == Sorted(ReportStudents)

\* report.reportstudent_set.all(): the per-student rows of report r.
reportstudent_set(r) == Sorted({k \in ReportStudents : reportstudent[k].report = r})

RECURSIVE Iteration(_)
\* The (report, report_student) pairs the two nested loops visit, in order.
Iteration(qs) ==
    IF qs = <<>>
    THEN <<>>
    ELSE [i \in 1 .. Len(reportstudent_set(Head(qs))) |->
              <<Head(qs), reportstudent_set(Head(qs))[i]>>] \o Iteration(Tail(qs))

Range(f) == {f[i] : i \in DOMAIN f}

\* The querysets an action can be handed: the selected reports, each once.
Querysets ==
    {qs \in UNION {[1 .. n -> Reports] : n \in 1 .. NumReports} :
        \A i, j \in DOMAIN qs : i # j => qs[i] # qs[j]}

\* Variant: the update runs on every report instead of the queryset.
Update_every_report(qs, flags) == [r \in Reports |-> TRUE]

\* queryset.update(exported=True)
Update(qs, flags) == [r \in Reports |-> IF r \in Range(qs) THEN TRUE ELSE flags[r]]

\* export_report_action, up to and including the header row.  The action
\* reads nothing of the request: it only hands it to message_user, whose
\* queue is `messages`.
ExportHeader ==
    \E qs \in Querysets :
        /\ pc = "idle"
        /\ pc' = "rows"
        /\ queryset' = qs
        /\ pending' = Iteration(qs)
        /\ response' = <<Header>>
        /\ messages' = <<>>
        /\ result' = NoResult
        /\ UNCHANGED <<tables, exported>>

\* One pass of the inner loop: one writerow.
ExportRow ==
    /\ pc = "rows"
    /\ pending # <<>>
    /\ response' = Append(response, Row(Head(pending)[1], Head(pending)[2]))
    /\ pending' = Tail(pending)
    /\ UNCHANGED <<tables, exported, pc, queryset, messages, result>>

\* Variant: the update sits inside the loops, before the rows are all out.
ExportFinish_inside_loop ==
    /\ pc = "rows"
    /\ exported' = Update(queryset, exported)
    /\ messages' = <<Str(Len(queryset)) \o " report(s) exported">>
    /\ result' = Returned("ReportAdmin.export_report_action", NoRequest, queryset,
                         Ok(response))
    /\ pc' = "idle"
    /\ queryset' = <<>>
    /\ response' = <<>>
    /\ pending' = <<>>
    /\ UNCHANGED tables

\* After the loops: queryset.update, message_user, return response.
ExportFinish ==
    /\ pc = "rows"
    /\ pending = <<>>
    /\ exported' = Update(queryset, exported)
    /\ messages' = <<Str(Len(queryset)) \o " report(s) exported">>
    /\ result' = Returned("ReportAdmin.export_report_action", NoRequest, queryset,
                         Ok(response))
    /\ pc' = "idle"
    /\ queryset' = <<>>
    /\ response' = <<>>
    /\ UNCHANGED <<tables, pending>>

\* ------------------------------------------------------------ hook actions
GroupQueryset ==
    \E req \in Requests :
        /\ pc = "idle"
        /\ result' = Returned("GroupAdmin.get_queryset", req, "", GroupAdmin_get_queryset(req))
        /\ messages' = <<>>
        /\ UNCHANGED <<tables, exported, locals>>

PlanQueryset ==
    \E req \in Requests :
        /\ pc = "idle"
        /\ result' = Returned("PlanAdmin.get_queryset", req, "", PlanAdmin_get_queryset(req))
        /\ messages' = <<>>
        /\ UNCHANGED <<tables, exported, locals>>

ReportQueryset ==
    \E req \in Requests :
        /\ pc = "idle"
        /\ result' = Returned("ReportAdmin.get_queryset", req, "", ReportAdmin_get_queryset(req))
        /\ messages' = <<>>
        /\ UNCHANGED <<tables, exported, locals>>

GetActions ==
    \E req \in Requests, base \in BaseActions :
        /\ pc = "idle"
        /\ result' = Returned("ReportAdmin.get_actions", req, base,
                             ReportAdmin_get_actions(base, req))
        /\ messages' = <<>>
        /\ UNCHANGED <<tables, exported, locals>>

GetListFilter ==
    \E req \in Requests :
        /\ pc = "idle"
        /\ result' = Returned("ReportAdmin.get_list_filter", req, "", ReportAdmin_get_list_filter(req))
        /\ messages' = <<>>
        /\ UNCHANGED <<tables, exported, locals>>

GroupFormfield ==
    \E req \in Requests, f \in {"section", "instructor"} :
        /\ pc = "idle"
        /\ result' = Returned("GroupAdmin.formfield_for_foreignkey", req, f,
               GroupAdmin_formfield_for_foreignkey(f, req))
        /\ messages' = <<>>
        /\ UNCHANGED <<tables, exported, locals>>

ReportFormfield ==
    \E req \in Requests, f \in {"group", "plan"} :
        /\ pc = "idle"
        /\ result' = Returned("ReportAdmin.formfield_for_foreignkey", req, f,
               ReportAdmin_formfield_for_foreignkey(f, req))
        /\ messages' = <<>>
        /\ UNCHANGED <<tables, exported, locals>>

ReportStudentFormfield ==
    \E req \in Requests, f \in {"report", "student"} :
        /\ pc = "idle"
        /\ result' = Returned("ReportStudentInline.formfield_for_foreignkey", req, f,
               ReportStudentInline_formfield_for_foreignkey(f, req))
        /\ messages' = <<>>
        /\ UNCHANGED <<tables, exported, locals>>

NextChangelist ==
    \/ GroupQueryset
    \/ PlanQueryset
    \/ ReportQueryset
    \/ GetActions
    \/ GetListFilter

SpecChangelist == InitChangelist /\ [][NextChangelist]_vars

NextFormfield ==
    \/ GroupFormfield
    \/ ReportFormfield
    \/ ReportStudentFormfield

SpecFormfield == InitFormfield /\ [][NextFormfield]_vars

NextExport ==
    \/ ExportHeader
    \/ ExportRow
    \/ ExportFinish

SpecExport == InitExport /\ [][NextExport]_vars

\* ================================================================= claims
\* The user a group, plan or report belongs to.
GroupOwner(g) == instructor[group[g].instructor].user
PlanOwner(p) == instructor[plan[p].instructor].user
ReportOwner(r) == GroupOwner(report[r].group)
ReportSchool(r) == section[group[report[r].group].section].school

Finished(hook) == result.hook = hook /\ result.status = "ok"

\* C1, as stated: for every non-superuser user with an Instructor record,
\* the Group, Plan and Report lists hold only rows the user owns.
C1_AsStated ==
    (~result.request.is_superuser /\ instructor_set(result.request.user) # {}) =>
        /\ Finished("GroupAdmin.get_queryset") =>
               \A g \in result.value : GroupOwner(g) = result.request.user
        /\ Finished("PlanAdmin.get_queryset") =>
               \A p \in result.value : PlanOwner(p) = result.request.user
        /\ Finished("ReportAdmin.get_queryset") =>
               \A r \in result.value : ReportOwner(r) = result.request.user

\* C1, amended: for every non-superuser the Group and Plan lists hold only
\* rows the user owns, and so does the Report list for every non-superuser
\* who does not hold the export permission.
C1_OwnRowsOnly ==
    ~result.request.is_superuser =>
        /\ Finished("GroupAdmin.get_queryset") =>
               \A g \in result.value : GroupOwner(g) = result.request.user
        /\ Finished("PlanAdmin.get_queryset") =>
               \A p \in result.value : PlanOwner(p) = result.request.user
        /\ (Finished("ReportAdmin.get_queryset")
                /\ ~has_perm(result.request, EXPORT_PERM)) =>
               \A r \in result.value : ReportOwner(r) = result.request.user

\* A plain instructor has listed the reports, got one, and another user's
\* report was held back.
C1_Witness ==
    /\ Finished("ReportAdmin.get_queryset")
    /\ ~result.request.is_superuser
    /\ ~has_perm(result.request, EXPORT_PERM)
    /\ result.value # {}
    /\ \E r \in Reports : r \notin result.value

\* C2, as stated: for every user granted the export permission, the Report
\* list holds only reports of the school of the user's Instructor record.
C2_AsStated ==
    (Finished("ReportAdmin.get_queryset") /\ EXPORT_PERM \in result.request.perms) =>
        \A r \in result.value :
            \E i \in instructor_set(result.request.user) :
                ReportSchool(r) = instructor[i].school

\* C2, amended: for every non-superuser holding the export permission, the
\* Report list holds only reports of the school of the user's Instructor
\* record.
C2_SchoolRowsOnly ==
    (Finished("ReportAdmin.get_queryset")
         /\ ~result.request.is_superuser
         /\ has_perm(result.request, EXPORT_PERM)) =>
        \A r \in result.value :
            \E i \in instructor_set(result.request.user) :
                ReportSchool(r) = instructor[i].school

\* An exporter has listed the reports, got one that another instructor
\* owns, and a report of another school was held back.
C2_Witness ==
    /\ Finished("ReportAdmin.get_queryset")
    /\ ~result.request.is_superuser
    /\ has_perm(result.request, EXPORT_PERM)
    /\ \E r \in result.value : ReportOwner(r) # result.request.user
    /\ \E r \in Reports : r \notin result.value

\* C8: without the export permission get_actions holds no
\* export_report_action and get_list_filter is empty; with it the action
\* is kept and the three exporter filters are returned.
C8_ExportGated ==
    /\ Finished("ReportAdmin.get_actions") =>
           IF has_perm(result.request, EXPORT_PERM)
           THEN "export_report_action" \in result.value /\ result.value = result.arg
           ELSE /\ "export_report_action" \notin result.value
                /\ result.value = result.arg \ {"export_report_action"}
    /\ Finished("ReportAdmin.get_list_filter") =>
           IF has_perm(result.request, EXPORT_PERM)
           THEN result.value = <<"exported", "ReportCourseFilter", "date">>
           ELSE result.value = <<>>

\* A non-superuser exporter asked for the actions and kept the export.
C8_Witness ==
    /\ Finished("ReportAdmin.get_actions")
    /\ ~result.request.is_superuser
    /\ EXPORT_PERM \in result.request.perms
    /\ "export_report_action" \in result.value

\* The students who are members, through a GroupStudent row, of a group
\* of one of the user's Instructor records.
MemberStudents(u) ==
    {groupstudent[k].student :
        k \in {m \in GroupStudents : GroupOwner(groupstudent[m].group) = u}}

\* C3: for a non-superuser the Student choices of the ReportStudent inline
\* are exactly the students who are members of a group the user owns.
C3_StudentChoices ==
    (Finished("ReportStudentInline.formfield_for_foreignkey")
         /\ result.arg = "student"
         /\ ~result.request.is_superuser) =>
        result.value = MemberStudents(result.request.user)

\* C4: for a non-superuser (exporter or not) the Instructor choices of a
\* Group form are Instructor records of the user, and the Group choices of
\* a Report form are groups of the user.
C4_OwnChoicesOnly ==
    ~result.request.is_superuser =>
        /\ (Finished("GroupAdmin.formfield_for_foreignkey")
                /\ result.arg = "instructor") =>
               \A i \in result.value : instructor[i].user = result.request.user
        /\ (Finished("ReportAdmin.formfield_for_foreignkey")
                /\ result.arg = "group") =>
               \A g \in result.value : GroupOwner(g) = result.request.user

\* A non-superuser exporter opened a Report form: one group to choose,
\* another user's group held back.
C4_Witness ==
    /\ Finished("ReportAdmin.formfield_for_foreignkey")
    /\ result.arg = "group"
    /\ ~result.request.is_superuser
    /\ EXPORT_PERM \in result.request.perms
    /\ result.value # {}
    /\ \E g \in Groups : g \notin result.value

\* ----------------------------------------------------------- export claims
EXPORT == "ReportAdmin.export_report_action"

\* The number of per-student rows of report r.
RowCount(r) == Cardinality({k \in ReportStudents : reportstudent[k].report = r})

RECURSIVE RowsBefore(_, _)
\* The number of per-student rows of the reports before position i of qs.
RowsBefore(qs, i) == IF i = 1 THEN 0 ELSE RowsBefore(qs, i - 1) + RowCount(qs[i - 1])

TotalRows(qs) == RowsBefore(qs, Len(qs) + 1)

\* The queryset and the CSV rows of the export under way or just returned.
WrittenFor == IF pc = "rows" THEN queryset ELSE IF Finished(EXPORT) THEN result.arg ELSE <<>>
Written == IF pc = "rows" THEN response ELSE IF Finished(EXPORT) THEN result.value ELSE <<Header>>

\* C5: the returned CSV is the header row followed, report by report in
\* queryset order, by exactly one row per per-student row of the report.
C5_OneRowPerStudentRow ==
    /\ pc = "rows" => response[1] = Header /\ Len(response) <= 1 + TotalRows(queryset)
    /\ Finished(EXPORT) =>
           /\ result.value[1] = Header
           /\ Len(result.value) = 1 + TotalRows(result.arg)
           /\ \A i \in 1 .. Len(result.arg) :
                  {result.value[1 + RowsBefore(result.arg, i) + m] :
                       m \in 1 .. RowCount(result.arg[i])}
                      = {Row(result.arg[i], k) :
                             k \in {n \in ReportStudents :
                                        reportstudent[n].report = result.arg[i]}}

\* Two reports were exported, one with no per-student row and one with
\* two: a header and two body rows.
C5_Witness ==
    /\ Finished(EXPORT)
    /\ Len(result.arg) = 2
    /\ RowCount(result.arg[1]) = 0
    /\ RowCount(result.arg[2]) = 2
    /\ Len(result.value) = 3

\* C6: when the export returns, every report of the queryset is marked
\* exported, and the flags change only once every CSV row is written.
C6_MarkedAfterRows ==
    [][/\ (pc = "rows" /\ pc' = "idle") => \A r \in Range(queryset) : exported'[r]
       /\ exported' # exported =>
              pc = "rows" /\ Len(response) = 1 + TotalRows(queryset)]_vars

\* An export returned whose queryset held a report without rows and a
\* report with rows, both now marked.
C6_Witness ==
    /\ Finished(EXPORT)
    /\ \E r \in Range(result.arg) : RowCount(r) = 0
    /\ \E r \in Range(result.arg) : RowCount(r) > 0
    /\ \A r \in Range(result.arg) : exported[r]

\* C7, as stated: a row without quiz value has "No" and an empty cell in
\* columns 15 and 16; a row with any quiz value, zero included, has "Yes"
\* and the value.
C7_QuizColumns ==
    \A j \in 2 .. Len(Written) :
        LET quiz == reportstudent[Iteration(WrittenFor)[j - 1][2]].quiz
        IN  IF quiz = None
            THEN Written[j][15] = "No" /\ Written[j][16] = ""
            ELSE Written[j][15] = "Yes" /\ Written[j][16] = Str(quiz[1])

\* C9: column 11 of every body row is the code of the plan's learning
\* target when the plan has one, and the plan's free-text alternate when
\* it has none.
C9_LearningTargetColumn ==
    \A j \in 2 .. Len(Written) :
        LET pl == plan[report[Iteration(WrittenFor)[j - 1][1]].plan]
        IN  Written[j][11] = IF pl.learning_target = None
                             THEN pl.alt_learning_target
                             ELSE learningtarget[pl.learning_target[1]].code

\* A row of a plan without learning target and a row of a plan with one
\* have been written.
C9_Witness ==
    /\ \E j \in 2 .. Len(Written) :
           plan[report[Iteration(WrittenFor)[j - 1][1]].plan].learning_target = None
    /\ \E j \in 2 .. Len(Written) :
           plan[report[Iteration(WrittenFor)[j - 1][1]].plan].learning_target # None

\* C10: a step of an export changes no table; it changes the exported
\* flag of no report outside its queryset, never turns a flag off, and
\* changes no flag when the reports of the queryset are exported already.
C10_OnlySelectedFlags ==
    [][/\ tables' = tables
       /\ \A r \in Reports : exported[r] => exported'[r]
       /\ \A r \in Reports : r \notin Range(queryset) => exported'[r] = exported[r]
       /\ (\A r \in Range(queryset) : exported[r]) => exported' = exported]_vars

\* An export returned and a report outside its queryset, exported by an
\* earlier export, is still marked.
C10_Witness ==
    /\ Finished(EXPORT)
    /\ \E r \in Reports \ Range(result.arg) : exported[r]

====
